---- MODULE Spec2Model ----
(***************************************************************************)
(* Model of src/src/lib.rs: the WASI-NN HTTP component.                    *)
(*                                                                         *)
(*   Component::handle            lock HANDLER, call handle_request,       *)
(*                                finalize the response                    *)
(*   HttpHandler::handle_data     load model, build graph, create the      *)
(*                                execution context, encode the window,    *)
(*                                run the model, decode the output         *)
(*   tensor_from_data_window      sort, filter, resize, repeat             *)
(*   inference_result_from_tensor reshape, take batch 0, map to points     *)
(*                                                                         *)
(* f32 values are drawn from the small set Floats (0 is the padding value  *)
(* 0f32).  An Option is a sequence of length 0 (None) or 1 (Some).  The    *)
(* tensor dimensions are scaled down from 16 x 128 x 1 and 16 x 24 x 1.    *)
(***************************************************************************)
EXTENDS Integers, Sequences, FiniteSets, TLC

\* The model's dimensions (lib.rs:73-75 sets 16, 128 and 24).
NUM_BATCHES == 2
HISTORY_LEN == 2
PREDICTION_LEN == 2
\* Number of observations of the window shared by the concurrent requests.
MaxWin == 2

VARIABLES
    input,      \* the DataWindow every request carries (its observations)
    model,      \* how the loaded model sizes its output tensor
    pc,         \* pc[r]: where invocation r of Component::handle is
    holder,     \* the request holding HANDLER's guard, 0 when it is free
    poisoned,   \* HANDLER's poison flag
    locked,     \* locked[r]: what HANDLER.lock() returned to r
    tensor,     \* tensor[r]: handle_data's input_tensor
    output,     \* output[r]: handle_data's output_tensors[OUTPUT_TENSOR_NAME]
    result,     \* result[r]: the value of `response` in Component::handle
    response,   \* response[r]: what ResponseOutparam::set was given
    sets,       \* sets[r]: the number of ResponseOutparam::set calls
    trace,      \* trace[r]: the steps of handle_data run so far, with outcome
    fn,         \* the function applied on its own (unit specifications)
    arg,        \* its argument
    locals,     \* its local variables when it returned
    ret         \* its return value

vars == <<input, model, pc, holder, poisoned, locked, tensor, output, result,
          response, sets, trace, fn, arg, locals, ret>>
pipelineVars == <<input, model, pc, holder, poisoned, locked, tensor, output,
                  result, response, sets, trace>>
unitVars == <<fn, arg, locals, ret>>

-----------------------------------------------------------------------------
(* Data *)

Requests == {1, 2}

Floats == {0, 1, 2}
Numbers == Floats \ {0}

None == <<>>
Some(x) == <<x>>

\* interface::Value
Number(num) == [kind |-> "Number", num |-> num]
String == [kind |-> "String", num |-> 0]

Timestamps == {None, Some(1), Some(2)}
Values == {Number(n) : n \in Numbers} \cup {String}

\* interface::DataPoint
DataPoint(q, v, t) == [quality |-> q, value |-> v, timestamp |-> t]
Observations == {DataPoint(None, v, t) : v \in Values, t \in Timestamps}

\* The sequences over S of length at most n.
SeqUpTo(S, n) == UNION {[1..k -> S] : k \in 0..n}

\* nn::Tensor::new
Tensor(data, dimensions) == [data |-> data, dimensions |-> dimensions]
NoTensor == Tensor(<<>>, <<>>)

\* Result: Ok(v), or Err(ErrorCode::InternalError(Some(msg)))
Ok(v) == [ok |-> TRUE, code |-> "none", msg |-> "", val |-> v]
Err(msg) == [ok |-> FALSE, code |-> "InternalError", msg |-> msg, val |-> <<>>]
NoResult == [ok |-> FALSE, code |-> "none", msg |-> "", val |-> <<>>]

-----------------------------------------------------------------------------
(* tensor_from_data_window *)

\* Ord of Option<timestamp>: None is less than every Some.
OptLeq(a, b) == a = None \/ (b # None /\ a[1] <= b[1])
OptLess(a, b) == ~OptLeq(b, a)

\* Insert x after every element whose key is not greater (a stable insert).
RECURSIVE InsertByKey(_, _)
InsertByKey(x, s) ==
    IF s = <<>> THEN <<x>>
    ELSE IF OptLess(x.timestamp, s[1].timestamp) THEN <<x>> \o s
    ELSE <<s[1]>> \o InsertByKey(x, Tail(s))

RECURSIVE SortFrom(_, _)
SortFrom(s, acc) ==
    IF s = <<>> THEN acc ELSE SortFrom(Tail(s), InsertByKey(s[1], acc))

UnsortedPoints(values) == values

\* lib.rs:108-109: collect the values and sort_by_key (stable) on timestamp.
sorted_data_points(values) == SortFrom(values, <<>>)

RECURSIVE FilterMapNumber(_)
FilterMapNumber(s) ==
    IF s = <<>> THEN <<>>
    ELSE IF s[1].value.kind = "Number"
         THEN <<s[1].value.num>> \o FilterMapNumber(Tail(s))
         ELSE FilterMapNumber(Tail(s))

\* lib.rs:117-125: the numeric values of the sorted points, strings dropped.
filtered_series(values) == FilterMapNumber(sorted_data_points(values))

\* Vec::resize(n, v)
Resize(s, n, v) == [i \in 1..n |-> IF i <= Len(s) THEN s[i] ELSE v]

\* A resize that keeps the newest values and pads on the left.
ResizeKeepNewest(values) ==
    LET s == filtered_series(values)
        n == Len(s)
    IN  [i \in 1..HISTORY_LEN |->
            IF n >= HISTORY_LEN THEN s[n - HISTORY_LEN + i]
            ELSE IF i <= HISTORY_LEN - n THEN 0 ELSE s[i - (HISTORY_LEN - n)]]

\* lib.rs:132: single_data_series.resize(HISTORY_LEN, 0f32)
single_data_series(values) == Resize(filtered_series(values), HISTORY_LEN, 0)

\* slice::repeat(n)
Repeat(s, n) == [i \in 1..(Len(s) * n) |-> s[((i - 1) % Len(s)) + 1]]

\* A replication that leaves the last batch zeroed.
RepeatShort(values) ==
    LET s == single_data_series(values)
    IN  Repeat(s, NUM_BATCHES - 1) \o [i \in 1..Len(s) |-> 0]

\* lib.rs:135: single_data_series.repeat(NUM_BATCHES)
all_data_series(values) == Repeat(single_data_series(values), NUM_BATCHES)

\* lib.rs:136
dims == <<NUM_BATCHES, HISTORY_LEN, 1>>

\* lib.rs:106-139, applied to input.data.values() in iteration order.
tensor_from_data_window(values) == Ok(Tensor(all_data_series(values), dims))

-----------------------------------------------------------------------------
(* inference_result_from_tensor *)

\* TryFrom<&Tensor<f32>> for &[[f32; PREDICTION_LEN]; NUM_BATCHES]: the flat
\* buffer seen as NUM_BATCHES rows, a shape mismatch unless the sizes agree.
try_into(t) ==
    IF Len(t.data) = NUM_BATCHES * PREDICTION_LEN
    THEN Ok([b \in 1..NUM_BATCHES |->
                [j \in 1..PREDICTION_LEN |-> t.data[(b - 1) * PREDICTION_LEN + j]]])
    ELSE Err("shape mismatch")

\* lib.rs:149-160: one point per value, without quality or timestamp.
PredictedValues(row) ==
    [i \in 1..Len(row) |-> DataPoint(None, Number(row[i]), None)]

\* A decoder that reads the last batch.
DecodeLastBatch(t) ==
    LET predictions == try_into(t)
    IN  IF ~predictions.ok THEN Err(predictions.msg)
        ELSE Ok(PredictedValues(predictions.val[NUM_BATCHES]))

\* A decoder that returns what it can read of a wrongly sized buffer.
DecodePartial(t) ==
    LET predictions == try_into(t)
    IN  IF predictions.ok THEN Ok(PredictedValues(predictions.val[1]))
        ELSE Ok(PredictedValues(SubSeq(t.data, 1,
                    IF Len(t.data) < PREDICTION_LEN THEN Len(t.data)
                    ELSE PREDICTION_LEN)))

\* lib.rs:143-163
inference_result_from_tensor(t) ==
    LET predictions == try_into(t)
    IN  IF ~predictions.ok THEN Err(predictions.msg)
        ELSE Ok(PredictedValues(predictions.val[1]))

-----------------------------------------------------------------------------
(* Component::handle and HttpHandler::handle_data, one invocation a request *)

\* The loaded model is a deterministic function of its input tensor; a model
\* whose graph disagrees with PREDICTION_LEN returns a buffer of another size.
ModelKinds == {"exact", "short", "long"}

OutputLen(kind) ==
    NUM_BATCHES * PREDICTION_LEN +
        (CASE kind = "short" -> -1 [] kind = "long" -> 1 [] OTHER -> 0)

\* The tensor ctx.run returns under OUTPUT_TENSOR_NAME.
ModelOutput(kind, t) ==
    Tensor([i \in 1..OutputLen(kind) |->
               (t.data[((i - 1) % Len(t.data)) + 1] + ((i - 1) \div PREDICTION_LEN))
                   % Cardinality(Floats)],
           <<NUM_BATCHES, PREDICTION_LEN, 1>>)

\* input.data.values(): the observations in the mapping's iteration order,
\* which the mapping does not fix.
IterationOrders(w) ==
    {[i \in 1..Len(w) |-> w[p[i]]] : p \in Permutations(1..Len(w))}

\* The pc values at which handle_request is running under HANDLER's guard.
InHandler ==
    {"from_files", "build", "init_execution_context", "tensor_from_data_window",
     "run", "inference_result_from_tensor", "return"}

\* A step of handle_data that ends with `?`: on Ok go on, on Err return it.
Try(r, step, ok, next, msg) ==
    /\ trace' = [trace EXCEPT ![r] = Append(@, <<step, ok>>)]
    /\ IF ok
       THEN /\ pc' = [pc EXCEPT ![r] = next]
            /\ UNCHANGED result
       ELSE /\ pc' = [pc EXCEPT ![r] = "return"]
            /\ result' = [result EXCEPT ![r] = Err(msg)]

\* A lock that does not wait for the guard to be free.
LockNoWait(r) ==
    /\ pc[r] = "lock"
    /\ holder' = r
    /\ locked' = [locked EXCEPT ![r] = IF poisoned THEN "poisoned" ELSE "ok"]
    /\ pc' = [pc EXCEPT ![r] = IF poisoned THEN "map_err" ELSE "from_files"]
    /\ UNCHANGED <<input, model, poisoned, tensor, output, result, response,
                   sets, trace, unitVars>>

\* lib.rs:43-45: HANDLER.lock() blocks until the guard is free; on a poisoned
\* mutex it returns the guard inside an error.
Lock(r) ==
    /\ pc[r] = "lock"
    /\ holder = 0
    /\ holder' = r
    /\ locked' = [locked EXCEPT ![r] = IF poisoned THEN "poisoned" ELSE "ok"]
    /\ pc' = [pc EXCEPT ![r] = IF poisoned THEN "map_err" ELSE "from_files"]
    /\ UNCHANGED <<input, model, poisoned, tensor, output, result, response,
                   sets, trace, unitVars>>

\* lib.rs:46: the poison error becomes an InternalError; dropping it drops
\* the guard it holds, and and_then does not call handle_request.
MapErr(r) ==
    /\ pc[r] = "map_err"
    /\ result' = [result EXCEPT ![r] = Err("Error locking state")]
    /\ holder' = 0
    /\ pc' = [pc EXCEPT ![r] = "set"]
    /\ UNCHANGED <<input, model, poisoned, locked, tensor, output, response,
                   sets, trace, unitVars>>

\* lib.rs:88-90: GraphBuilder::default().encoding(..).from_files(..)?
FromFiles(r) ==
    /\ pc[r] = "from_files"
    /\ \E ok \in BOOLEAN : Try(r, "from_files", ok, "build", "model load")
    /\ UNCHANGED <<input, model, holder, poisoned, locked, tensor, output,
                   response, sets, unitVars>>

\* A build whose error is not returned.
BuildIgnoringError(r) ==
    /\ pc[r] = "build"
    /\ \E ok \in BOOLEAN :
          /\ trace' = [trace EXCEPT ![r] = Append(@, <<"build", ok>>)]
          /\ pc' = [pc EXCEPT ![r] = "init_execution_context"]
    /\ UNCHANGED <<input, model, holder, poisoned, locked, tensor, output,
                   result, response, sets, unitVars>>

\* lib.rs:91: .build()?
Build(r) ==
    /\ pc[r] = "build"
    /\ \E ok \in BOOLEAN :
          Try(r, "build", ok, "init_execution_context", "graph build")
    /\ UNCHANGED <<input, model, holder, poisoned, locked, tensor, output,
                   response, sets, unitVars>>

\* A context creation that goes on to the invocation.
InitExecutionContextThenRun(r) ==
    /\ pc[r] = "init_execution_context"
    /\ \E ok \in BOOLEAN :
          Try(r, "init_execution_context", ok, "run", "execution context")
    /\ tensor' = [tensor EXCEPT ![r] = tensor_from_data_window(input).val]
    /\ UNCHANGED <<input, model, holder, poisoned, locked, output, response,
                   sets, unitVars>>

\* lib.rs:92: graph.init_execution_context()?
InitExecutionContext(r) ==
    /\ pc[r] = "init_execution_context"
    /\ \E ok \in BOOLEAN :
          Try(r, "init_execution_context", ok, "tensor_from_data_window",
              "execution context")
    /\ UNCHANGED <<input, model, holder, poisoned, locked, tensor, output,
                   response, sets, unitVars>>

\* lib.rs:94: tensor_from_data_window(input)?
TensorFromDataWindow(r) ==
    /\ pc[r] = "tensor_from_data_window"
    /\ \E values \in IterationOrders(input) :
          LET t == tensor_from_data_window(values)
          IN  /\ Try(r, "tensor_from_data_window", t.ok, "run", t.msg)
              /\ tensor' = [tensor EXCEPT ![r] = IF t.ok THEN t.val ELSE @]
    /\ UNCHANGED <<input, model, holder, poisoned, locked, output, response,
                   sets, unitVars>>

\* lib.rs:97-98: ctx.run([(INPUT_TENSOR_NAME, input_tensor)], &[OUTPUT_TENSOR_NAME])?
Run(r) ==
    /\ pc[r] = "run"
    /\ \E ok \in BOOLEAN :
          /\ Try(r, "run", ok, "inference_result_from_tensor", "backend")
          /\ output' = [output EXCEPT ![r] =
                           IF ok THEN ModelOutput(model, tensor[r]) ELSE @]
    /\ UNCHANGED <<input, model, holder, poisoned, locked, tensor, response,
                   sets, unitVars>>

\* lib.rs:100: inference_result_from_tensor(&output_tensors[OUTPUT_TENSOR_NAME])
InferenceResultFromTensor(r) ==
    /\ pc[r] = "inference_result_from_tensor"
    /\ LET res == inference_result_from_tensor(output[r])
       IN  /\ trace' = [trace EXCEPT ![r] =
                           Append(@, <<"inference_result_from_tensor", res.ok>>)]
           /\ result' = [result EXCEPT ![r] = res]
    /\ pc' = [pc EXCEPT ![r] = "return"]
    /\ UNCHANGED <<input, model, holder, poisoned, locked, tensor, output,
                   response, sets, unitVars>>

\* lib.rs:48: handle_request returns and the closure drops the guard.
Return(r) ==
    /\ pc[r] = "return"
    /\ holder' = 0
    /\ pc' = [pc EXCEPT ![r] = "set"]
    /\ UNCHANGED <<input, model, poisoned, locked, tensor, output, result,
                   response, sets, trace, unitVars>>

\* A finalization that is skipped when the lock failed.
SetResponseUnlessLockFailed(r) ==
    /\ pc[r] = "set"
    /\ response' = [response EXCEPT ![r] =
                       IF locked[r] = "poisoned" THEN @ ELSE result[r]]
    /\ sets' = [sets EXCEPT ![r] = IF locked[r] = "poisoned" THEN @ ELSE @ + 1]
    /\ pc' = [pc EXCEPT ![r] = "done"]
    /\ UNCHANGED <<input, model, holder, poisoned, locked, tensor, output,
                   result, trace, unitVars>>

\* lib.rs:52: ResponseOutparam::set(response_outparam, response)
SetResponse(r) ==
    /\ pc[r] = "set"
    /\ response' = [response EXCEPT ![r] = result[r]]
    /\ sets' = [sets EXCEPT ![r] = @ + 1]
    /\ pc' = [pc EXCEPT ![r] = "done"]
    /\ UNCHANGED <<input, model, holder, poisoned, locked, tensor, output,
                   result, trace, unitVars>>

\* lib.rs:97-100: a panic in the backend call or in the index of its result
\* unwinds out of handle_request: the guard is dropped while panicking, which
\* poisons HANDLER, and handle does not return.
Panic(r) ==
    /\ pc[r] \in {"run", "inference_result_from_tensor"}
    /\ poisoned' = TRUE
    /\ holder' = 0
    /\ pc' = [pc EXCEPT ![r] = "panicked"]
    /\ UNCHANGED <<input, model, locked, tensor, output, result, response,
                   sets, trace, unitVars>>

\* A DataWindow maps opaque keys to observations: it is a bag of at most
\* MaxWin observations, written here in one fixed order.
ValueRank(v) == IF v.kind = "String" THEN 0 ELSE v.num
TimeRank(t) == IF t = None THEN 0 ELSE t[1]
ObsRank(o) == TimeRank(o.timestamp) * Cardinality(Floats) + ValueRank(o.value)
Windows ==
    {w \in SeqUpTo(Observations, MaxWin) :
        \A i, j \in 1..Len(w) : i < j => ObsRank(w[i]) <= ObsRank(w[j])}

\* lib.rs:25: HANDLER is a free, unpoisoned mutex; every request carries the
\* same window and meets the same model.
Init ==
    /\ input \in Windows
    /\ model \in ModelKinds
    /\ pc = [r \in Requests |-> "lock"]
    /\ holder = 0
    /\ poisoned = FALSE
    /\ locked = [r \in Requests |-> "pending"]
    /\ tensor = [r \in Requests |-> NoTensor]
    /\ output = [r \in Requests |-> NoTensor]
    /\ result = [r \in Requests |-> NoResult]
    /\ response = [r \in Requests |-> NoResult]
    /\ sets = [r \in Requests |-> 0]
    /\ trace = [r \in Requests |-> <<>>]
    /\ fn = "none"
    /\ arg = <<>>
    /\ locals = <<>>
    /\ ret = NoResult

Next ==
    \E r \in Requests :
        \/ Lock(r)
        \/ MapErr(r)
        \/ FromFiles(r)
        \/ Build(r)
        \/ InitExecutionContext(r)
        \/ TensorFromDataWindow(r)
        \/ Run(r)
        \/ InferenceResultFromTensor(r)
        \/ Return(r)
        \/ SetResponse(r)
        \/ Panic(r)

Spec == Init /\ [][Next]_vars

\* The windows of at most one observation: what a request holds the lock for
\* does not depend on the window's size.
InitSmall == Init /\ Len(input) <= 1

\* The runtime keeps running an invocation that can take a step.
FairSpec == InitSmall /\ [][Next]_vars /\ WF_vars(Next)

-----------------------------------------------------------------------------
(* The two conversions applied on their own, to every input of bounded size *)

NoLocals == [sorted_data_points |-> <<>>, series |-> <<>>,
             single_data_series |-> <<>>, all_data_series |-> <<>>]

\* The pipeline's variables while a conversion is applied on its own.
PipelineIdle ==
    /\ input = <<>>
    /\ model = "exact"
    /\ pc = [r \in Requests |-> "done"]
    /\ holder = 0
    /\ poisoned = FALSE
    /\ locked = [r \in Requests |-> "pending"]
    /\ tensor = [r \in Requests |-> NoTensor]
    /\ output = [r \in Requests |-> NoTensor]
    /\ result = [r \in Requests |-> NoResult]
    /\ response = [r \in Requests |-> NoResult]
    /\ sets = [r \in Requests |-> 0]
    /\ trace = [r \in Requests |-> <<>>]

\* Windows of up to HISTORY_LEN + 1 observations, in iteration order.
InitEncode ==
    /\ PipelineIdle
    /\ fn = "none"
    /\ arg \in SeqUpTo(Observations, HISTORY_LEN + 1)
    /\ locals = NoLocals
    /\ ret = NoResult

CallTensorFromDataWindow ==
    /\ fn = "none"
    /\ fn' = "tensor_from_data_window"
    /\ locals' = [sorted_data_points |-> sorted_data_points(arg),
                  series |-> filtered_series(arg),
                  single_data_series |-> single_data_series(arg),
                  all_data_series |-> all_data_series(arg)]
    /\ ret' = tensor_from_data_window(arg)
    /\ UNCHANGED <<arg, pipelineVars>>

NextEncode == CallTensorFromDataWindow

SpecEncode == InitEncode /\ [][NextEncode]_vars

\* Output tensors with a buffer of up to NUM_BATCHES * PREDICTION_LEN + 1 values.
OutputTensors ==
    {Tensor(d, <<NUM_BATCHES, PREDICTION_LEN, 1>>) :
        d \in SeqUpTo(Floats, NUM_BATCHES * PREDICTION_LEN + 1)}

InitDecode ==
    /\ PipelineIdle
    /\ fn = "none"
    /\ arg \in OutputTensors
    /\ locals = NoLocals
    /\ ret = NoResult

CallInferenceResultFromTensor ==
    /\ fn = "none"
    /\ fn' = "inference_result_from_tensor"
    /\ ret' = inference_result_from_tensor(arg)
    /\ UNCHANGED <<arg, locals, pipelineVars>>

NextDecode == CallInferenceResultFromTensor

SpecDecode == InitDecode /\ [][NextDecode]_vars

-----------------------------------------------------------------------------
(* Claims about tensor_from_data_window (under SpecEncode) *)

Encoded == fn = "tensor_from_data_window"

\* The positions of the numeric-valued observations of a window.
NumericAt(w) == {i \in 1..Len(w) : w[i].value.kind = "Number"}

\* s lists the numeric observations of w, each once, by ascending timestamp.
ListsNumericAscending(s, w) ==
    \E p \in [1..Len(s) -> NumericAt(w)] :
        /\ \A i \in NumericAt(w) : \E k \in 1..Len(s) : p[k] = i
        /\ \A k, l \in 1..Len(s) : k # l => p[k] # p[l]
        /\ \A k \in 1..Len(s) : s[k] = w[p[k]].value.num
        /\ \A k, l \in 1..Len(s) :
              k < l => OptLeq(w[p[k]].timestamp, w[p[l]].timestamp)

\* C1: for a window with at least one numeric observation, the series derived
\* before resizing lists the values of exactly the numeric-valued
\* observations, each once, in ascending order of timestamp; string-valued
\* observations contribute nothing and leave no gap.
C1_NormalizeSortedNumeric ==
    (Encoded /\ NumericAt(arg) # {}) =>
        /\ Len(locals.series) = Cardinality(NumericAt(arg))
        /\ ListsNumericAscending(locals.series, arg)

\* A window iterated out of order with a string between two numbers.
C1_Witness ==
    /\ Encoded
    /\ Len(arg) = 3
    /\ arg[1] = DataPoint(None, Number(1), Some(2))
    /\ arg[2] = DataPoint(None, String, Some(1))
    /\ arg[3] = DataPoint(None, Number(2), None)
    /\ locals.series = <<2, 1>>

\* C2: the fixed-length series has exactly HISTORY_LEN elements; element i is
\* series[i] for i below min(n, HISTORY_LEN) and 0.0 from n on: right-padded
\* when short, cut to its first (oldest) values when long, all zero and no
\* error when the series is empty.
C2_ResizePadTruncate ==
    Encoded =>
        LET s == locals.series
            f == locals.single_data_series
        IN  /\ ret.ok
            /\ Len(f) = HISTORY_LEN
            /\ \A i \in 1..HISTORY_LEN :
                  f[i] = IF i <= Len(s) THEN s[i] ELSE 0

\* A series longer than HISTORY_LEN whose newest value is lost.
C2_Witness ==
    /\ Encoded
    /\ Len(locals.series) = HISTORY_LEN + 1
    /\ locals.series[HISTORY_LEN + 1] = 2
    /\ \A i \in 1..HISTORY_LEN : locals.series[i] = 1
    /\ \A i \in 1..HISTORY_LEN : locals.single_data_series[i] = 1

\* The product of a shape's dimensions.
RECURSIVE Product(_)
Product(d) == IF d = <<>> THEN 1 ELSE d[1] * Product(Tail(d))

\* C3: the input tensor has shape [NUM_BATCHES, HISTORY_LEN, 1], its buffer
\* has HISTORY_LEN * NUM_BATCHES elements (the product of the dimensions),
\* and every batch slice equals slice 0.
C3_TensorShapeReplicated ==
    Encoded =>
        /\ ret.ok
        /\ ret.val.dimensions = <<NUM_BATCHES, HISTORY_LEN, 1>>
        /\ Len(ret.val.data) = HISTORY_LEN * NUM_BATCHES
        /\ Len(ret.val.data) = Product(ret.val.dimensions)
        /\ \A b \in 0..(NUM_BATCHES - 1) : \A i \in 1..HISTORY_LEN :
              ret.val.data[b * HISTORY_LEN + i] = ret.val.data[i]

\* A tensor whose slices hold a value and a padding zero.
C3_Witness ==
    /\ Encoded
    /\ ret.val.data[1] = 2
    /\ ret.val.data[HISTORY_LEN] = 0
    /\ ret.val.data[(NUM_BATCHES - 1) * HISTORY_LEN + 1] = 2

-----------------------------------------------------------------------------
(* Claims about inference_result_from_tensor (under SpecDecode) *)

Decoded == fn = "inference_result_from_tensor"

\* C4: for a buffer of exactly NUM_BATCHES * PREDICTION_LEN elements decode
\* succeeds with PREDICTION_LEN points, point i holding buffer[i] (batch 0)
\* with no timestamp and no quality, whatever the other batches hold.
C4_DecodeBatchZero ==
    (Decoded /\ Len(arg.data) = NUM_BATCHES * PREDICTION_LEN) =>
        /\ ret.ok
        /\ Len(ret.val) = PREDICTION_LEN
        /\ \A i \in 1..PREDICTION_LEN :
              /\ ret.val[i].value = Number(arg.data[i])
              /\ ret.val[i].timestamp = None
              /\ ret.val[i].quality = None

\* A decoded buffer whose last batch differs from batch 0.
C4_Witness ==
    /\ Decoded
    /\ Len(arg.data) = NUM_BATCHES * PREDICTION_LEN
    /\ \A i \in 1..PREDICTION_LEN :
          /\ arg.data[i] = 1
          /\ arg.data[(NUM_BATCHES - 1) * PREDICTION_LEN + i] = 2
    /\ ret.ok
    /\ ret.val[1].value = Number(1)

\* C5: for a buffer of any other length decode returns a shape-mismatch
\* error and no predicted point.
C5_DecodeShapeMismatch ==
    (Decoded /\ Len(arg.data) # NUM_BATCHES * PREDICTION_LEN) =>
        /\ ~ret.ok
        /\ ret.code = "InternalError"
        /\ ret.msg = "shape mismatch"
        /\ ret.val = <<>>

\* A buffer one element too long, refused.
C5_Witness ==
    /\ Decoded
    /\ Len(arg.data) = NUM_BATCHES * PREDICTION_LEN + 1
    /\ ~ret.ok

-----------------------------------------------------------------------------
(* Claims about handle_data and Component::handle (under Spec and FairSpec) *)

\* The steps of handle_data in the order of lib.rs:88-100.
HandleDataOrder ==
    <<"from_files", "build", "init_execution_context",
      "tensor_from_data_window", "run", "inference_result_from_tensor">>

\* The error each step returns when it fails.
StepError(step) ==
    CASE step = "from_files" -> "model load"
      [] step = "build" -> "graph build"
      [] step = "init_execution_context" -> "execution context"
      [] step = "run" -> "backend"
      [] step = "inference_result_from_tensor" -> "shape mismatch"
      [] OTHER -> ""

\* handle_data has returned to Component::handle.
Returned(r) == locked[r] = "ok" /\ pc[r] \in {"return", "set", "done"}

AllStepsOk(r) ==
    /\ Len(trace[r]) = Len(HandleDataOrder)
    /\ \A k \in 1..Len(trace[r]) : trace[r][k][2]

LastStepFailed(r) == trace[r] # <<>> /\ ~trace[r][Len(trace[r])][2]

\* C6: the first failing step of handle_data ends the request: its error is
\* the value returned, no step runs after it, no step (the invocation among
\* them) runs twice, and what is returned is a complete result or an error,
\* never both and never a partial result.
C6_FailFast ==
    \A r \in Requests :
        LET t == trace[r]
        IN  /\ \A k \in 1..Len(t) : ~t[k][2] => k = Len(t)
            /\ \A k, l \in 1..Len(t) : k # l => t[k][1] # t[l][1]
            /\ LastStepFailed(r) => result[r] = Err(StepError(t[Len(t)][1]))
            /\ Returned(r) =>
                  IF result[r].ok
                  THEN /\ AllStepsOk(r)
                       /\ result[r].code = "none"
                       /\ Len(result[r].val) = PREDICTION_LEN
                  ELSE /\ LastStepFailed(r)
                       /\ result[r].val = <<>>

\* A request ended by the failure of the execution-context creation.
C6_Witness ==
    \E r \in Requests :
        /\ Returned(r)
        /\ trace[r] = <<<<"from_files", TRUE>>, <<"build", TRUE>>,
                        <<"init_execution_context", FALSE>>>>
        /\ result[r] = Err("execution context")

\* The order C7 states: normalize and encode first, then the model.
ClaimedOrder ==
    <<"tensor_from_data_window", "from_files", "build",
      "init_execution_context", "run", "inference_result_from_tensor">>

\* C7 as stated: the steps run in the order normalize and encode, model load
\* and build, execution-context creation, invoke, decode, each after the
\* success of the one before.
C7_EncodeBeforeLoad ==
    \A r \in Requests : \A k \in 1..Len(trace[r]) :
        /\ trace[r][k][1] = ClaimedOrder[k]
        /\ k < Len(trace[r]) => trace[r][k][2]

\* C7 amended: the steps run in the order model load, graph build,
\* execution-context creation, normalize and encode, invoke, decode, each
\* after the success of the one before.
C7_LoadBeforeEncode ==
    \A r \in Requests : \A k \in 1..Len(trace[r]) :
        /\ k <= Len(HandleDataOrder)
        /\ trace[r][k][1] = HandleDataOrder[k]
        /\ k < Len(trace[r]) => trace[r][k][2]

\* A request that ran all six steps.
C7_Witness ==
    \E r \in Requests : pc[r] = "done" /\ AllStepsOk(r) /\ response[r].ok

\* The model was invoked for r and returned a tensor.
RanModel(r) == \E k \in 1..Len(trace[r]) : trace[r][k] = <<"run", TRUE>>

MutualExclusion ==
    /\ \A r1, r2 \in Requests :
          (pc[r1] \in InHandler /\ pc[r2] \in InHandler) => r1 = r2
    /\ \A r \in Requests : pc[r] \in InHandler => holder = r
    /\ \A r \in Requests : pc[r] \in {"set", "done", "panicked"} => holder # r

C10_ResponseSetOnce ==
    \A r \in Requests :
        /\ sets[r] = IF pc[r] = "done" THEN 1 ELSE 0
        /\ pc[r] = "done" =>
              /\ locked[r] = "poisoned" =>
                    /\ response[r] = Err("Error locking state")
                    /\ trace[r] = <<>>
              /\ (locked[r] = "ok" /\ LastStepFailed(r)) =>
                    response[r] =
                        Err(StepError(trace[r][Len(trace[r])][1]))
              /\ (locked[r] = "ok" /\ ~LastStepFailed(r)) =>
                    /\ AllStepsOk(r)
                    /\ response[r] =
                          Ok(PredictedValues(
                                SubSeq(output[r].data, 1, PREDICTION_LEN)))

\* An invocation that found HANDLER poisoned and answered with the lock error.
C10_Witness ==
    \E r \in Requests :
        /\ pc[r] = "done"
        /\ locked[r] = "poisoned"
        /\ sets[r] = 1
        /\ response[r].code = "InternalError"

====
